---- MODULE Spec2Model ----
(***************************************************************************)
(* Lead distribution pipeline of app.py: the persisted files               *)
(* (leads_master.xlsx, lead_posp_matches_city_state_only.xlsx,             *)
(* posp_load.xlsx), one action per call of run_pipeline, and the matcher   *)
(* match_leads_with_posp as operators.                                     *)
(*                                                                         *)
(* Cell values are sequences of one-character strings; a missing cell is   *)
(* the one-element sequence NaN.  Dates are day numbers; datetime.now()    *)
(* is day `today` at a time of day later than midnight.                    *)
(***************************************************************************)
EXTENDS Integers, Sequences, FiniteSets, TLC

\* ---------------------------------------------------------------- bounds
MaxLeadRows == 2
MaxDay == 101

\* ------------------------------------------------- configuration of app.py
MAX_MATCHES_PER_LEAD == 1
exact_city_base == 10
fuzzy_city_90 == 8
fuzzy_city_70 == 5
fuzzy_city_50 == 3
recency_7 == 5
recency_30 == 3
performance_weight == 1
min_score == 8
active_days_window == 30
daily_posp_cap == 15

\* ------------------------------------------------------------ cell values
NaN == <<"NaN">>
NaT == 0 - 1
Day0 == 100

isna(v) == v = NaN

\* str(v): a missing cell prints as "nan"
str(v) == IF isna(v) THEN <<"n", "a", "n">> ELSE v

UpperCase == <<"A", "B", "C", "D", "E", "F", "G", "H", "I", "J", "K", "L", "M",
               "N", "O", "P", "Q", "R", "S", "T", "U", "V", "W", "X", "Y", "Z">>
LowerCase == <<"a", "b", "c", "d", "e", "f", "g", "h", "i", "j", "k", "l", "m",
               "n", "o", "p", "q", "r", "s", "t", "u", "v", "w", "x", "y", "z">>

LowerChar(c) ==
    IF \E i \in 1..26 : UpperCase[i] = c
    THEN LowerCase[CHOOSE i \in 1..26 : UpperCase[i] = c]
    ELSE c

lower(s) == [i \in 1..Len(s) |-> LowerChar(s[i])]

RECURSIVE lstrip(_)
lstrip(s) == IF s # <<>> /\ Head(s) = " " THEN lstrip(Tail(s)) ELSE s

RECURSIVE rstrip(_)
rstrip(s) ==
    IF s # <<>> /\ s[Len(s)] = " " THEN rstrip(SubSeq(s, 1, Len(s) - 1)) ELSE s

strip(s) == rstrip(lstrip(s))

\* the text cells of the sheets
Pune == <<"P", "u", "n", "e">>
Puna == <<"p", "u", "n", "a">>
Goa == <<"G", "o", "a">>
Gaya == <<"G", "a", "y", "a">>
MH == <<"M", "H">>
Mh == <<"m", "h", " ">>
KA == <<"K", "A">>

TextCells == {NaN, Pune, Puna, Goa, Gaya, MH, Mh, KA, <<" ">>}

\* str(x).strip().lower(), computed once for every text cell
StripLower == [v \in TextCells |-> lower(strip(str(v)))]

norm(v) == StripLower[v]

\* ------------------------------------- difflib.SequenceMatcher(None, a, b)
\* length of the common run of a and b that starts at a[i], b[j]
RECURSIVE RunLen(_, _, _, _, _, _)
RunLen(a, b, i, j, ahi, bhi) ==
    IF i < ahi /\ j < bhi /\ a[i] = b[j]
    THEN 1 + RunLen(a, b, i + 1, j + 1, ahi, bhi)
    ELSE 0

\* the longest of the blocks: of all maximal blocks the one starting
\* earliest in a, and of those earliest in b
LongestOf(Blocks, alo, blo) ==
    IF Blocks = {} THEN <<alo, blo, 0>>
    ELSE CHOOSE m \in Blocks : \A o \in Blocks :
             \/ m[3] > o[3]
             \/ m[3] = o[3] /\ m[1] < o[1]
             \/ m[3] = o[3] /\ m[1] = o[1] /\ m[2] <= o[2]

\* the longest matching block in a[alo..ahi-1], b[blo..bhi-1]
find_longest_match(a, b, alo, ahi, blo, bhi) ==
    LongestOf({<<i, j, RunLen(a, b, i, j, ahi, bhi)>> :
                   i \in alo..(ahi - 1), j \in blo..(bhi - 1)}, alo, blo)

\* total size of the matching blocks (get_matching_blocks): the longest
\* block m, and the blocks to its left and to its right
RECURSIVE MatchCount(_, _, _, _, _, _)
MatchAround(a, b, alo, ahi, blo, bhi, m) ==
    IF m[3] = 0 THEN 0
    ELSE m[3] + MatchCount(a, b, alo, m[1], blo, m[2])
              + MatchCount(a, b, m[1] + m[3], ahi, m[2] + m[3], bhi)

MatchCount(a, b, alo, ahi, blo, bhi) ==
    MatchAround(a, b, alo, ahi, blo, bhi,
                find_longest_match(a, b, alo, ahi, blo, bhi))

\* ratio() * 100, rounded down: 2*M/T, and 1.0 when both strings are empty.
\* Every threshold it is compared with is an integer, so rounding down
\* changes no comparison.
Ratio100(x, y) ==
    IF Len(x) + Len(y) = 0 THEN 100
    ELSE (200 * MatchCount(x, y, 1, Len(x) + 1, 1, Len(y) + 1))
             \div (Len(x) + Len(y))

\* simple_similarity, computed once for every pair of text cells
Similarity ==
    [a \in TextCells, b \in TextCells |->
        IF isna(a) \/ isna(b) THEN 0
        ELSE Ratio100(lower(str(a)), lower(str(b)))]

simple_similarity(a, b) == Similarity[a, b]

\* ------------------------------------------------------------- data frames
\* A sheet is [columns |-> the set of column names, rows |-> its rows]; the
\* POSP sheet also carries app_dtype, the dtype of its app_installed column.
\* A lead row:  [leadid, registrationno, regcity, regstate]
\* A POSP row:  [user_id, city_name, state_name, last_biz_date,
\*               performance_score, app_installed]
\* last_biz_date is a day number, or NaT for a cell pd.to_datetime coerces;
\* performance_score is a number, or NotNumeric for a cell pd.to_numeric
\* coerces to NaN.
NotNumeric == 0 - 999
None == 0 - 1

\* df[mask]: the rows whose mask entry is true, in their order
SelectRows(rows, mask) ==
    LET RECURSIVE take(_)
        take(i) == IF i > Len(rows) THEN <<>>
                   ELSE (IF mask[i] THEN <<rows[i]>> ELSE <<>>) \o take(i + 1)
    IN  take(1)

\* DataFrame.drop_duplicates(subset): the first row of every subset value;
\* subset[i] is the value of the subset columns in row i
drop_duplicates(rows, subset) ==
    SelectRows(rows, [i \in 1..Len(rows) |->
                        \A j \in 1..(i - 1) : subset[j] # subset[i]])

\* variant: no column is found missing
assert_nothing(df, required_cols) == {}

\* assert_required_columns: the required columns that are missing
assert_required_columns(df, required_cols) ==
    {c \in required_cols : c \notin df.columns}

LeadsRequired == {"leadid", "registrationno", "regcity", "regstate"}
PospRequired == {"user_id", "city_name", "state_name", "last_biz_date"}

\* leadid.astype(str) + "_" + registrationno.astype(str)
lead_key(lead) == str(lead.leadid) \o <<"_">> \o str(lead.registrationno)

\* ------------------------------------------------- match_leads_with_posp
\* no filter on last_biz_date
IsActiveAnyDate(posp, today) == TRUE

\* posps[posps["last_biz_date"] >= today - timedelta(days=window)]:
\* last_biz_date is a midnight, now is later than midnight, NaT compares false
IsActive(posp, today) ==
    /\ posp.last_biz_date # NaT
    /\ posp.last_biz_date > today - active_days_window

\* pd.to_numeric(errors="coerce").fillna(0); 0 when the column is missing
PerformanceScore(df, posp) ==
    IF "performance_score" \in df.columns /\ posp.performance_score # NotNumeric
    THEN posp.performance_score
    ELSE 0

\* col.astype(int) of a column that is not of dtype "O" (its cells are
\* numbers, written by their digits, or missing): raises IntCastingNaNError
\* when a row that passed the date filter has a missing cell
AstypeIntRaises(df, today) ==
    /\ "app_installed" \in df.columns
    /\ df.app_dtype # "O"
    /\ \E i \in 1..Len(df.rows) :
           IsActive(df.rows[i], today) /\ isna(df.rows[i].app_installed)

\* app_installed_bool: str.lower().isin(yes, y, true, 1) for a column of
\* dtype "O", astype(int) == 1 for a column of numbers; every row passes
\* when the column is missing
AppInstalledBool(df, posp) ==
    IF "app_installed" \notin df.columns THEN TRUE
    ELSE IF df.app_dtype = "O"
    THEN lower(str(posp.app_installed)) \in
             {<<"y", "e", "s">>, <<"y">>, <<"t", "r", "u", "e">>, <<"1">>}
    ELSE posp.app_installed = <<"1">>

\* the POSP rows match_leads_with_posp iterates over, performance_score
\* normalised
FilterPosps(df, today) ==
    LET active == SelectRows(df.rows, [i \in 1..Len(df.rows) |->
                                          IsActive(df.rows[i], today)])
        installed == SelectRows(active, [i \in 1..Len(active) |->
                                            AppInstalledBool(df, active[i])])
    IN  [i \in 1..Len(installed) |->
            [installed[i] EXCEPT !.performance_score =
                                     PerformanceScore(df, installed[i])]]

\* posp_load_map.get(posp_key, 0)
LoadOf(posp_load_map, posp_id) ==
    IF str(posp_id) \in DOMAIN posp_load_map
    THEN posp_load_map[str(posp_id)]
    ELSE 0

\* variant: the thresholds are exclusive
RecencyScoreExclusive(days_since_last) ==
    IF days_since_last < 7 THEN recency_7
    ELSE IF days_since_last < 30 THEN recency_30
    ELSE 0

RecencyScore(days_since_last) ==
    IF days_since_last <= 7 THEN recency_7
    ELSE IF days_since_last <= 30 THEN recency_30
    ELSE 0

MatchRow(lead, posp, total_score, match_type, similarity, count) ==
    [lead_phone |-> lead.leadid, lead_regno |-> lead.registrationno,
     lead_city |-> lead.regcity, lead_state |-> lead.regstate,
     posp_id |-> posp.user_id, posp_city |-> posp.city_name,
     posp_state |-> posp.state_name, total_score |-> total_score,
     last_biz_date |-> posp.last_biz_date,
     match_type |-> match_type, similarity |-> similarity,
     assigned_count_today |-> count]

NotAssignedRow(lead) ==
    [lead_phone |-> lead.leadid, lead_regno |-> lead.registrationno,
     lead_city |-> lead.regcity, lead_state |-> lead.regstate,
     posp_id |-> NaN, posp_city |-> NaN, posp_state |-> NaN,
     total_score |-> 0, last_biz_date |-> NaT,
     match_type |-> "none", similarity |-> 0,
     assigned_count_today |-> None, assigned_status |-> "not_assigned"]

\* variant: a POSP exactly at the cap still takes a lead
AtCapStrict(assigned_count_today) == assigned_count_today > daily_posp_cap

\* the daily-cap test of the inner loop
AtCap(assigned_count_today) == assigned_count_today >= daily_posp_cap

\* "State must match": both states non-blank and equal
StateMatches(lead_state_norm, posp_state_norm) ==
    ~(\/ lead_state_norm = <<>>
      \/ posp_state_norm = <<>>
      \/ lead_state_norm # posp_state_norm)

\* "Exact city match"
CityMatches(lead_city_norm, posp_city_norm) ==
    /\ lead_city_norm # <<>>
    /\ posp_city_norm # <<>>
    /\ lead_city_norm = posp_city_norm

DaysSinceLast(posp, today) ==
    IF posp.last_biz_date # NaT THEN today - posp.last_biz_date ELSE 999

FuzzyBase(city_similarity) ==
    IF city_similarity >= 90 THEN fuzzy_city_90
    ELSE IF city_similarity >= 70 THEN fuzzy_city_70
    ELSE fuzzy_city_50

\* the exact-city or fuzzy-city branch of the inner loop
ScoreCity(lead, posp, assigned_count_today, bonus, city_similarity) ==
    IF CityMatches(norm(lead.regcity), norm(posp.city_name))
    THEN [exact |-> <<MatchRow(lead, posp, exact_city_base + bonus,
                               "exact_city", 100, assigned_count_today)>>,
          fuzzy |-> <<>>]
    ELSE IF city_similarity < 50 THEN [exact |-> <<>>, fuzzy |-> <<>>]
    ELSE [exact |-> <<>>,
          fuzzy |-> <<MatchRow(lead, posp, FuzzyBase(city_similarity) + bonus,
                               "fuzzy_city", city_similarity,
                               assigned_count_today)>>]

\* the cap test and the state test of the inner loop, in that order
ScoreGated(lead, posp, assigned_count_today, today) ==
    IF AtCap(assigned_count_today) THEN [exact |-> <<>>, fuzzy |-> <<>>]
    ELSE IF ~StateMatches(norm(lead.regstate), norm(posp.state_name))
    THEN [exact |-> <<>>, fuzzy |-> <<>>]
    ELSE ScoreCity(lead, posp, assigned_count_today,
                   RecencyScore(DaysSinceLast(posp, today))
                       + posp.performance_score * performance_weight,
                   simple_similarity(lead.regcity, posp.city_name))

\* one iteration of the inner loop: what the POSP row contributes to
\* exact_posp_scores and fuzzy_posp_scores of the lead
ScorePosp(lead, posp, posp_load_map, today) ==
    ScoreGated(lead, posp, LoadOf(posp_load_map, posp.user_id), today)

\* exact_posp_scores and fuzzy_posp_scores of two stretches of the loop
JoinScores(here, rest) ==
    [exact |-> here.exact \o rest.exact, fuzzy |-> here.fuzzy \o rest.fuzzy]

\* the inner loop over the POSP rows, skipping an id already seen
RECURSIVE ScanPosps(_, _, _, _, _)
ScanPosps(lead, posps, posp_load_map, today, seen_posp_ids) ==
    IF posps = <<>> THEN [exact |-> <<>>, fuzzy |-> <<>>]
    ELSE JoinScores(
             IF Head(posps).user_id \in seen_posp_ids
             THEN [exact |-> <<>>, fuzzy |-> <<>>]
             ELSE ScorePosp(lead, Head(posps), posp_load_map, today),
             ScanPosps(lead, Tail(posps), posp_load_map, today,
                       seen_posp_ids \cup {Head(posps).user_id}))

\* the sort key (total_score, last_biz_date, -assigned_count_today) of x is
\* greater than that of y
KeyGreater(x, y) ==
    \/ x.total_score > y.total_score
    \/ /\ x.total_score = y.total_score
       /\ x.last_biz_date > y.last_biz_date
    \/ /\ x.total_score = y.total_score
       /\ x.last_biz_date = y.last_biz_date
       /\ 0 - x.assigned_count_today > 0 - y.assigned_count_today

\* the first row of s with the greatest key
FirstGreatest(s) ==
    CHOOSE k \in 1..Len(s) :
        /\ \A j \in 1..Len(s) : ~KeyGreater(s[j], s[k])
        /\ \A j \in 1..(k - 1) : KeyGreater(s[k], s[j])

MoveToFront(s, i) ==
    <<s[i]>> \o SubSeq(s, 1, i - 1) \o SubSeq(s, i + 1, Len(s))

\* sorted(posp_scores, key, reverse=True): stable, so rows with equal keys
\* keep their order
RECURSIVE SortedTail(_)
SortedReverse(s) ==
    IF s = <<>> THEN <<>> ELSE SortedTail(MoveToFront(s, FirstGreatest(s)))

SortedTail(s) == <<Head(s)>> \o SortedReverse(Tail(s))

\* variant: the sorted list is not cut
TruncateNone(s, n) == s

\* sorted(...)[:n]
Truncate(s, n) == SubSeq(s, 1, IF Len(s) < n THEN Len(s) ELSE n)

\* variant: the fuzzy matches are ranked with the exact ones
PreferExactOff(scores) == scores.exact \o scores.fuzzy

\* "Prefer exact matches over fuzzy"
PreferExact(scores) ==
    IF scores.exact # <<>> THEN scores.exact ELSE scores.fuzzy

\* variant: no candidate is dropped for its score
MinScoreFilterOff(top) == top

\* "Apply MIN_SCORE filter"
MinScoreFilter(top) ==
    SelectRows(top, [i \in 1..Len(top) |-> top[i].total_score >= min_score])

BestMatches(posp_scores) ==
    MinScoreFilter(Truncate(SortedReverse(posp_scores), MAX_MATCHES_PER_LEAD))

MarkAssigned(m) ==
    [f \in DOMAIN m \cup {"assigned_status"} |->
        IF f = "assigned_status" THEN "assigned" ELSE m[f]]

\* case 2 of the outer loop, or the assigned rows
EmitBest(lead, best_matches) ==
    IF best_matches = <<>> THEN <<NotAssignedRow(lead)>>
    ELSE [i \in 1..Len(best_matches) |-> MarkAssigned(best_matches[i])]

\* case 1 of the outer loop, or the choice among the candidates
EmitLead(lead, posp_scores) ==
    IF posp_scores = <<>> THEN <<NotAssignedRow(lead)>>
    ELSE EmitBest(lead, BestMatches(posp_scores))

\* the records one lead adds to matched_results
MatchLead(lead, posps, posp_load_map, today) ==
    EmitLead(lead, PreferExact(ScanPosps(lead, posps, posp_load_map, today, {})))

\* the outer loop: posp_load_map is only read, it is the same for every lead
RECURSIVE MatchRows(_, _, _, _)
MatchRows(leads, posps, posp_load_map, today) ==
    IF leads = <<>> THEN <<>>
    ELSE MatchLead(Head(leads), posps, posp_load_map, today)
             \o MatchRows(Tail(leads), posps, posp_load_map, today)

match_leads_with_posp(leads, posp_df, posp_load_map, today) ==
    MatchRows(leads, FilterPosps(posp_df, today), posp_load_map, today)

\* ------------------------------------ Phase2/test10.py: the pincode tiers
\* A lead row and a POSP row of test10.py carry a pincode cell as well.
Digits == {"0", "1", "2", "3", "4", "5", "6", "7", "8", "9"}

\* "".join(ch for ch in str(pin) if ch.isdigit())
RECURSIVE KeepDigits(_)
KeepDigits(s) ==
    IF s = <<>> THEN <<>>
    ELSE (IF Head(s) \in Digits THEN <<Head(s)>> ELSE <<>>)
             \o KeepDigits(Tail(s))

\* variant: the first six digits of six or more
SixDigitsTruncated(s) == IF Len(s) < 6 THEN <<>> ELSE SubSeq(s, 1, 6)

\* the digits when there are six of them, "" otherwise
SixDigits(s) == IF Len(s) # 6 THEN <<>> ELSE s

normalize_pincode(pin) ==
    IF isna(pin) THEN <<>> ELSE SixDigits(KeepDigits(str(pin)))

\* pincode_match_level on the two normalised pincodes
PinLevel(lp, pp) ==
    IF lp = <<>> \/ pp = <<>> THEN "none"
    ELSE IF lp = pp THEN "6"
    ELSE IF SubSeq(lp, 1, 5) = SubSeq(pp, 1, 5) THEN "5"
    ELSE IF SubSeq(lp, 1, 3) = SubSeq(pp, 1, 3) THEN "3"
    ELSE "none"

pincode_match_level(lead_pin, posp_pin) ==
    PinLevel(normalize_pincode(lead_pin), normalize_pincode(posp_pin))

\* row.get("pincode") or "": "" without the column or for an empty cell
PincodeOf(columns, row) ==
    IF "pincode" \in columns THEN row.pincode ELSE <<>>

PinBase(level) == IF level = "6" THEN 18 ELSE IF level = "5" THEN 14 ELSE 10

PinMatchType(level) ==
    IF level = "6" THEN "pincode_6"
    ELSE IF level = "5" THEN "pincode_5"
    ELSE "pincode_3"

Phase2MatchRow(lead, lead_pincode, posp, posp_pincode, total_score, match_type, similarity) ==
    [lead_phone |-> lead.leadid, lead_regno |-> lead.registrationno,
     lead_city |-> lead.regcity, lead_state |-> lead.regstate,
     lead_pincode |-> lead_pincode,
     posp_id |-> posp.user_id, posp_city |-> posp.city_name,
     posp_state |-> posp.state_name, posp_pincode |-> posp_pincode,
     total_score |-> total_score, last_biz_date |-> posp.last_biz_date,
     match_type |-> match_type, similarity |-> similarity]

Phase2NotAssignedRow(lead, lead_pincode) ==
    [lead_phone |-> lead.leadid, lead_regno |-> lead.registrationno,
     lead_city |-> lead.regcity, lead_state |-> lead.regstate,
     lead_pincode |-> lead_pincode,
     posp_id |-> NaN, posp_city |-> NaN, posp_state |-> NaN,
     posp_pincode |-> NaN, total_score |-> 0, last_biz_date |-> NaT,
     match_type |-> "none", similarity |-> 0,
     assigned_status |-> "not_assigned"]

NoScores == [pin |-> <<>>, exact |-> <<>>, fuzzy |-> <<>>]

\* the exact-city or fuzzy-city branch of the inner loop of test10.py
Phase2ScoreCity(lead, lead_pincode, posp, posp_pincode, bonus, city_similarity) ==
    IF CityMatches(norm(lead.regcity), norm(posp.city_name))
    THEN [NoScores EXCEPT !.exact =
             <<Phase2MatchRow(lead, lead_pincode, posp, posp_pincode,
                              10 + bonus, "exact_city", 100)>>]
    ELSE IF city_similarity < 50 THEN NoScores
    ELSE [NoScores EXCEPT !.fuzzy =
             <<Phase2MatchRow(lead, lead_pincode, posp, posp_pincode,
                              FuzzyBase(city_similarity) + bonus,
                              "fuzzy_city", city_similarity)>>]

\* variant: no state test
Phase2NoStateGate(lead, lead_pincode, posp, posp_pincode, bonus, level) ==
    IF level # "none"
    THEN [NoScores EXCEPT !.pin =
             <<Phase2MatchRow(lead, lead_pincode, posp, posp_pincode,
                              PinBase(level) + bonus, PinMatchType(level),
                              100)>>]
    ELSE Phase2ScoreCity(lead, lead_pincode, posp, posp_pincode, bonus,
                         simple_similarity(lead.regcity, posp.city_name))

\* the pincode tiers, then the state test, then the city tiers
Phase2ScoreTiers(lead, lead_pincode, posp, posp_pincode, bonus, level) ==
    IF level # "none"
    THEN [NoScores EXCEPT !.pin =
             <<Phase2MatchRow(lead, lead_pincode, posp, posp_pincode,
                              PinBase(level) + bonus, PinMatchType(level),
                              100)>>]
    ELSE IF ~StateMatches(norm(lead.regstate), norm(posp.state_name))
    THEN NoScores
    ELSE Phase2ScoreCity(lead, lead_pincode, posp, posp_pincode, bonus,
                         simple_similarity(lead.regcity, posp.city_name))

\* one iteration of the inner loop of test10.py
Phase2ScorePosp(lead, lead_pincode, posp, posp_pincode, today) ==
    Phase2ScoreTiers(lead, lead_pincode, posp, posp_pincode,
                     RecencyScore(DaysSinceLast(posp, today))
                         + posp.performance_score,
                     pincode_match_level(lead_pincode, posp_pincode))

Phase2JoinScores(here, rest) ==
    [pin |-> here.pin \o rest.pin, exact |-> here.exact \o rest.exact,
     fuzzy |-> here.fuzzy \o rest.fuzzy]

\* the inner loop over the POSP rows, skipping an id already seen
RECURSIVE Phase2ScanPosps(_, _, _, _, _, _)
Phase2ScanPosps(lead, lead_pincode, posps, posp_columns, today, seen_posp_ids) ==
    IF posps = <<>> THEN NoScores
    ELSE Phase2JoinScores(
             IF Head(posps).user_id \in seen_posp_ids THEN NoScores
             ELSE Phase2ScorePosp(lead, lead_pincode, Head(posps),
                                  PincodeOf(posp_columns, Head(posps)), today),
             Phase2ScanPosps(lead, lead_pincode, Tail(posps), posp_columns,
                             today, seen_posp_ids \cup {Head(posps).user_id}))

\* variant: the three lists are ranked together
Phase2AllTiers(scores) == scores.pin \o scores.exact \o scores.fuzzy

\* variant: a tier none of whose candidates reaches min_score is passed over
Phase2PreferScoring(scores) ==
    IF \E i \in 1..Len(scores.pin) : scores.pin[i].total_score >= min_score
    THEN scores.pin
    ELSE IF \E i \in 1..Len(scores.exact) :
                scores.exact[i].total_score >= min_score
    THEN scores.exact
    ELSE scores.fuzzy

\* "PRIORITY: pincode > exact_city > fuzzy_city"
Phase2PreferTier(scores) ==
    IF scores.pin # <<>> THEN scores.pin
    ELSE IF scores.exact # <<>> THEN scores.exact
    ELSE scores.fuzzy

\* the sort key (total_score, last_biz_date) of x is greater than that of y
Phase2KeyGreater(x, y) ==
    \/ x.total_score > y.total_score
    \/ /\ x.total_score = y.total_score
       /\ x.last_biz_date > y.last_biz_date

Phase2FirstGreatest(s) ==
    CHOOSE k \in 1..Len(s) :
        /\ \A j \in 1..Len(s) : ~Phase2KeyGreater(s[j], s[k])
        /\ \A j \in 1..(k - 1) : Phase2KeyGreater(s[k], s[j])

RECURSIVE Phase2SortedTail(_)
Phase2SortedReverse(s) ==
    IF s = <<>> THEN <<>>
    ELSE Phase2SortedTail(MoveToFront(s, Phase2FirstGreatest(s)))

Phase2SortedTail(s) == <<Head(s)>> \o Phase2SortedReverse(Tail(s))

Phase2BestMatches(posp_scores) ==
    MinScoreFilter(Truncate(Phase2SortedReverse(posp_scores),
                            MAX_MATCHES_PER_LEAD))

Phase2EmitBest(lead, lead_pincode, best_matches) ==
    IF best_matches = <<>> THEN <<Phase2NotAssignedRow(lead, lead_pincode)>>
    ELSE [i \in 1..Len(best_matches) |-> MarkAssigned(best_matches[i])]

Phase2EmitLead(lead, lead_pincode, posp_scores) ==
    IF posp_scores = <<>> THEN <<Phase2NotAssignedRow(lead, lead_pincode)>>
    ELSE Phase2EmitBest(lead, lead_pincode, Phase2BestMatches(posp_scores))

\* the records one lead adds to matched_results
Phase2MatchLead(lead, lead_pincode, posps, posp_columns, today) ==
    Phase2EmitLead(lead, lead_pincode,
        Phase2PreferTier(Phase2ScanPosps(lead, lead_pincode, posps,
                                         posp_columns, today, {})))

RECURSIVE Phase2MatchRows(_, _, _, _, _)
Phase2MatchRows(leads, leads_columns, posps, posp_columns, today) ==
    IF leads = <<>> THEN <<>>
    ELSE Phase2MatchLead(Head(leads), PincodeOf(leads_columns, Head(leads)),
                         posps, posp_columns, today)
             \o Phase2MatchRows(Tail(leads), leads_columns, posps,
                                posp_columns, today)

\* match_leads_with_posp of test10.py
Phase2_match_leads_with_posp(leads, leads_columns, posp_df, today) ==
    Phase2MatchRows(leads, leads_columns, FilterPosps(posp_df, today),
                    posp_df.columns, today)

\* ------------------------------------------------------------ posp_load.xlsx
\* A row: [posp_id, assigned_count_today, last_reset_date]

\* variant: the counts are kept as stored
load_posp_load_NoReset(file, today_date) == file

\* load_posp_load: a row whose last_reset_date is not today gets count 0 and
\* today's date
load_posp_load(file, today_date) ==
    [i \in 1..Len(file) |->
        IF file[i].last_reset_date # today_date
        THEN [file[i] EXCEPT !.assigned_count_today = 0,
                             !.last_reset_date = today_date]
        ELSE file[i]]

\* build_load_map: str(posp_id) -> assigned_count_today, the last row of an id
\* wins, a row without id is skipped
build_load_map(posp_load_df) ==
    LET rows == {i \in 1..Len(posp_load_df) : ~isna(posp_load_df[i].posp_id)}
        last(k) == CHOOSE i \in rows :
                       /\ str(posp_load_df[i].posp_id) = k
                       /\ \A j \in rows :
                              str(posp_load_df[j].posp_id) = k => j <= i
    IN  [k \in {str(posp_load_df[i].posp_id) : i \in rows} |->
            posp_load_df[last(k)].assigned_count_today]

\* variant: a created row starts at 0
IncrementLoadZeroInit(posp_load_df, posp_id, today_date) ==
    LET mask == {i \in 1..Len(posp_load_df) :
                     str(posp_load_df[i].posp_id) = str(posp_id)}
        idx == CHOOSE i \in mask : \A j \in mask : i <= j
    IN  IF mask = {}
        THEN Append(posp_load_df,
                    [posp_id |-> posp_id, assigned_count_today |-> 0,
                     last_reset_date |-> today_date])
        ELSE [posp_load_df EXCEPT
                 ![idx].assigned_count_today = @ + 1,
                 ![idx].last_reset_date = today_date]

\* one pass of the update loop of run_pipeline for an assigned row: find the
\* first row of the POSP and add 1, or create the row with count 1
IncrementLoad(posp_load_df, posp_id, today_date) ==
    LET mask == {i \in 1..Len(posp_load_df) :
                     str(posp_load_df[i].posp_id) = str(posp_id)}
        idx == CHOOSE i \in mask : \A j \in mask : i <= j
    IN  IF mask = {}
        THEN Append(posp_load_df,
                    [posp_id |-> posp_id, assigned_count_today |-> 1,
                     last_reset_date |-> today_date])
        ELSE [posp_load_df EXCEPT
                 ![idx].assigned_count_today = @ + 1,
                 ![idx].last_reset_date = today_date]

RECURSIVE UpdateLoad(_, _, _)
UpdateLoad(posp_load_df, assigned_df, today_date) ==
    IF assigned_df = <<>> THEN posp_load_df
    ELSE UpdateLoad(IF isna(Head(assigned_df).posp_id) THEN posp_load_df
                    ELSE IncrementLoad(posp_load_df, Head(assigned_df).posp_id,
                                       today_date),
                    Tail(assigned_df), today_date)

\* ------------------------------------------------------------------ inputs
AllLeadColumns == {"leadid", "registrationno", "regcity", "regstate"}
AllPospColumns == {"user_id", "city_name", "state_name", "last_biz_date",
                   "performance_score", "app_installed"}

Lead(id, regno, city, state) ==
    [leadid |-> id, registrationno |-> regno, regcity |-> city,
     regstate |-> state]

Posp(id, city, state, date, perf, app) ==
    [user_id |-> id, city_name |-> city, state_name |-> state,
     last_biz_date |-> date, performance_score |-> perf,
     app_installed |-> app]

\* the lead rows of the sheets: two rows of one lead with different cities,
\* a second lead of the same city
LeadRows ==
    { Lead(<<"1">>, <<"A">>, Pune, MH),
      Lead(<<"1">>, <<"A">>, Goa, MH),
      Lead(<<"2">>, <<"A">>, Pune, MH) }

RECURSIVE SeqsUpTo(_, _)
SeqsUpTo(S, n) ==
    IF n = 0 THEN {<<>>}
    ELSE LET shorter == SeqsUpTo(S, n - 1)
         IN  shorter \cup {Append(q, x) : q \in shorter, x \in S}

\* the leads sheets: every sequence of lead rows, and a sheet without the
\* regcity column
LeadSheets ==
    {[columns |-> AllLeadColumns, rows |-> q] :
         q \in SeqsUpTo(LeadRows, MaxLeadRows) \ {<<>>}}
    \cup {[columns |-> AllLeadColumns \ {"regcity"},
           rows |-> <<Lead(<<"2">>, <<"A">>, NaN, MH)>>]}

P1 == Posp(<<"P", "1">>, Pune, MH, Day0 - 1, 0, <<"Y", "e", "s">>)
P2 == Posp(<<"P", "2">>, Pune, MH, Day0 - 10, 0, <<"y">>)
P3 == Posp(<<"P", "3">>, Puna, MH, Day0 - 1, 1, <<"1">>)

PospSheets ==
    {[columns |-> AllPospColumns, app_dtype |-> "O", rows |-> q] :
         q \in {<<P1, P2, P3>>, <<P2, P1, P2>>}}

\* the wider POSP sheets: sheets of strings, sheets of a numeric
\* app_installed column, a sheet without the optional columns and a sheet
\* without the last_biz_date column
WidePospSheets ==
    \* POSP rows of the wider sheets: P4 ties with P1 in score and date; P5 and
    \* P5b are fuzzy matches of Goa below min_score; P6 is on the edge of the
    \* active window on Day0; P7 has an unparseable date, P8 a non-numeric
    \* score, P9 no app_installed value; PK is in another state; P0 has no id;
    \* PF is a fuzzy match of Pune with the best score
    LET P4 == Posp(<<"P", "4">>, Pune, MH, Day0 - 1, 0, <<"Y", "E", "S">>)
        P5 == Posp(<<"P", "5">>, Gaya, MH, Day0 - 10, 0, <<"y">>)
        P5b == Posp(<<"P", "5", "b">>, Gaya, MH, Day0 - 20, 0, <<"y">>)
        P6 == Posp(<<"P", "6">>, Pune, MH, Day0 - 29, 0, <<"y">>)
        P7 == Posp(<<"P", "7">>, Pune, MH, NaT, 0, <<"y">>)
        P8 == Posp(<<"P", "8">>, Pune, MH, Day0 - 1, NotNumeric, <<"T", "r", "u", "e">>)
        P9 == Posp(<<"P", "9">>, Pune, MH, Day0 - 1, 5, NaN)
        PK == Posp(<<"P", "K">>, Pune, KA, Day0 - 1, 9, <<"y">>)
        P0 == Posp(NaN, Pune, MH, Day0 - 1, 0, <<"y">>)
        PF == Posp(<<"P", "F">>, Puna, MH, Day0 - 1, 20, <<"y">>)
    \* POSP rows of a sheet whose app_installed column holds numbers: installed,
    \* not installed, no value, and no value in a row with an old date
        N1 == Posp(<<"N", "1">>, Pune, MH, Day0 - 1, 0, <<"1">>)
        N2 == Posp(<<"N", "2">>, Pune, MH, Day0 - 1, 9, <<"0">>)
        N3 == Posp(<<"N", "3">>, Pune, MH, Day0 - 1, 0, NaN)
        N4 == Posp(<<"N", "4">>, Pune, MH, Day0 - 40, 0, NaN)
    IN  {[columns |-> AllPospColumns, app_dtype |-> "O", rows |-> q] :
             q \in {<<P1, P4>>, <<P5, P5b, P3>>, <<P6, P7, PF>>, <<P8, P9, P2>>,
                    <<PK, P5>>, <<P0, P2>>}}
        \cup {[columns |-> AllPospColumns, app_dtype |-> "float64", rows |-> q] :
                  q \in {<<N2, N1>>, <<N1, N3>>, <<N1, N4>>}}
        \cup {[columns |-> PospRequired, app_dtype |-> "O", rows |-> <<P9, P2>>],
               [columns |-> AllPospColumns \ {"last_biz_date"}, app_dtype |-> "O",
                rows |-> <<P1>>]}

\* the leads sheets run against them: one lead in Pune, one in Goa, two
\* leads in Pune, and a sheet without the regstate column
WideLeadSheets ==
    {[columns |-> AllLeadColumns, rows |-> q] :
         q \in {<<Lead(<<"1">>, <<"A">>, Pune, MH)>>,
                <<Lead(<<"1">>, <<"A">>, Goa, MH)>>,
                <<Lead(<<"1">>, <<"A">>, Pune, MH),
                  Lead(<<"2">>, <<"A">>, Pune, MH)>>}}
    \cup {[columns |-> AllLeadColumns \ {"regstate"},
           rows |-> <<Lead(<<"1">>, <<"A">>, Pune, NaN)>>]}

\* ---------------------------------------------- inputs of Phase2/test10.py
Lead2(id, regno, city, state, pincode) ==
    [leadid |-> id, registrationno |-> regno, regcity |-> city,
     regstate |-> state, pincode |-> pincode]

Posp2(id, city, state, date, perf, app, pincode) ==
    [user_id |-> id, city_name |-> city, state_name |-> state,
     last_biz_date |-> date, performance_score |-> perf,
     app_installed |-> app, pincode |-> pincode]

Phase2LeadColumns == AllLeadColumns \cup {"pincode"}

\* the leads sheets of test10.py; the last one names its pincode column
\* pincode_x000d_
Phase2LeadSheets ==
    \* one lead in Pune, with and without a pincode
    LET Pin411001 == <<"4", "1", "1", "0", "0", "1">>
        LA == Lead2(<<"1">>, <<"A">>, Pune, MH, Pin411001)
        LB == Lead2(<<"1">>, <<"A">>, Pune, MH, NaN)
    IN  { [columns |-> Phase2LeadColumns, rows |-> <<LA>>],
          [columns |-> Phase2LeadColumns, rows |-> <<LB>>],
          [columns |-> AllLeadColumns \cup {"pincode_x000d_"}, rows |-> <<LA>>] }

Phase2PospColumns == AllPospColumns \cup {"pincode"}

Phase2PospSheets ==
    \* Q1: the lead's city in another state, no pincode; Q2: another city and
    \* state, the lead's pincode up to the last digit; Q3: the lead's city and
    \* state (in lower case), a far pincode; Q4: a similar city, no pincode, the best score;
    \* Q5: another city, the lead's pincode written with a space
    LET Pin411002 == <<"4", "1", "1", "0", "0", "2">>
        Pin411Spaced == <<"4", "1", "1", " ", "0", "0", "1">>
        Pin560001 == <<"5", "6", "0", "0", "0", "1">>
        Q1 == Posp2(<<"Q", "1">>, Pune, KA, Day0 - 1, 9, <<"y">>, NaN)
        Q2 == Posp2(<<"Q", "2">>, Goa, KA, Day0 - 10, 0, <<"y">>, Pin411002)
        Q3 == Posp2(<<"Q", "3">>, Pune, Mh, Day0 - 1, 9, <<"y">>, Pin560001)
        Q4 == Posp2(<<"Q", "4">>, Puna, MH, Day0 - 1, 20, <<"y">>, NaN)
        Q5 == Posp2(<<"Q", "5">>, Goa, MH, Day0 - 1, 0, <<"y">>, Pin411Spaced)
    IN  {[columns |-> Phase2PospColumns, app_dtype |-> "O", rows |-> q] :
             q \in {<<Q1>>, <<Q1, Q2>>, <<Q4, Q3, Q2>>, <<Q4, Q1>>, <<Q5, Q2>>}}

LoadRow(id, count, date) ==
    [posp_id |-> id, assigned_count_today |-> count, last_reset_date |-> date]

\* posp_load.xlsx as earlier runs over other lead sheets can have left it
InitialLoads ==
    { <<>>,
      <<LoadRow(P1.user_id, daily_posp_cap - 1, Day0)>>,
      <<LoadRow(P1.user_id, daily_posp_cap, Day0),
        LoadRow(P2.user_id, daily_posp_cap - 1, Day0)>>,
      <<LoadRow(P1.user_id, daily_posp_cap, Day0 - 1)>> }

\* ------------------------------------------------------------------- state
VARIABLES
    today,            \* the day of datetime.now()
    leads_master,     \* leads_master.xlsx: the lead_key column
    matches_file,     \* lead_posp_matches_city_state_only.xlsx: its rows
    posp_load_file,   \* posp_load.xlsx: its rows
    results_file,     \* Processing Results.xlsx of Phase2/test10.py: its rows
    leads_columns,    \* locals of the last call of run_pipeline
    posp_columns,
    leads_df,
    same_leads,       \* the call before it had the same leads_df
    load_read,        \* posp_load.xlsx as the last call read it
    existing_keys,
    new_leads_df,
    posp_df,          \* the POSP sheet, its duplicate rows dropped
    today_date,
    posp_load_df,
    posp_load_map,
    matched_df,
    result            \* how the last call ended

vars == <<today, leads_master, matches_file, posp_load_file, results_file,
          leads_columns, posp_columns,
          leads_df, same_leads, load_read, existing_keys, new_leads_df,
          posp_df, today_date, posp_load_df,
          posp_load_map, matched_df, result>>

files == <<leads_master, matches_file, posp_load_file>>

\* posp_df before a sheet has been deduplicated
NoSheet == [columns |-> {}, app_dtype |-> "O", rows |-> <<>>]

\* the first call is still to come, posp_load.xlsx is one of loads
InitFrom(loads) ==
    /\ today = Day0
    /\ leads_master = {}
    /\ matches_file = <<>>
    /\ posp_load_file \in loads
    /\ results_file = <<>>
    /\ leads_columns = {}
    /\ posp_columns = {}
    /\ leads_df = <<>>
    /\ same_leads = FALSE
    /\ load_read = <<>>
    /\ existing_keys = {}
    /\ new_leads_df = <<>>
    /\ posp_df = NoSheet
    /\ today_date = Day0
    /\ posp_load_df = <<>>
    /\ posp_load_map = <<>>
    /\ matched_df = <<>>
    /\ result = "none"

Init == InitFrom(InitialLoads)

\* the columns lead_phone, lead_regno, posp_id, assigned_status of df
MatchSubset(df) ==
    [i \in 1..Len(df) |-> <<df[i].lead_phone, df[i].lead_regno,
                             df[i].posp_id, df[i].assigned_status>>]

\* the duplicate leads of the sheet removed
DedupLeads(rows) ==
    drop_duplicates(rows, [i \in 1..Len(rows) |->
                              <<rows[i].leadid, rows[i].registrationno>>])

\* the duplicate POSP rows of the sheet removed
DedupPosps(posps) ==
    [posps EXCEPT !.rows =
        drop_duplicates(posps.rows,
                        [i \in 1..Len(posps.rows) |-> posps.rows[i].user_id])]

\* variant: every lead of the sheet is new
NewLeadsUnfiltered(df, keys) == df

\* the leads of the sheet that are not in leads_master
NewLeads(df, keys) ==
    SelectRows(df, [i \in 1..Len(df) |-> lead_key(df[i]) \notin keys])

\* variant: leads_master.xlsx is not rewritten
MasterNotSaved(master, new_leads) == master

\* variant: the first new lead is left out
MasterSkipsFirst(master, new_leads) ==
    master \cup {lead_key(new_leads[i]) : i \in 2..Len(new_leads)}

\* variant: leads_master.xlsx holds the new leads only
MasterOnlyNew(master, new_leads) ==
    {lead_key(new_leads[i]) : i \in 1..Len(new_leads)}

\* leads_master_all: leads_master plus the keys of the new leads
MasterAll(master, new_leads) ==
    master \cup {lead_key(new_leads[i]) : i \in 1..Len(new_leads)}

\* variant: leads_master.xlsx is written before the matches file
MasterWrittenFirst(master, new_leads) == MasterAll(master, new_leads)

\* leads_master.xlsx when combined.to_excel raised: the statements after it
\* are not reached
MasterAfterRaise(master, new_leads) == master

\* whether run_pipeline writes posp_load.xlsx
WritesLoad(assigned_df) == assigned_df # <<>>

\* variant: the matches file holds the rows of this run only
CombinedOverwrites(existing_matches, df) == df

\* the rows written to the matches file: the file's rows and, after them,
\* the rows of this run, duplicates of the four columns dropped
Combined(existing_matches, df) ==
    IF df = <<>> THEN existing_matches
    ELSE drop_duplicates(existing_matches \o df,
                         MatchSubset(existing_matches \o df))

\* the first missing-columns error of the two assert_required_columns calls
MissingColumns(leads, posps) ==
    IF assert_required_columns(leads, LeadsRequired) # {}
    THEN assert_required_columns(leads, LeadsRequired)
    ELSE assert_required_columns(posps, PospRequired)

\* matched_df[matched_df["assigned_status"] == "assigned"]
AssignedRows(matched) ==
    SelectRows(matched, [i \in 1..Len(matched) |->
                            matched[i].assigned_status = "assigned"])

\* posp_load.xlsx after the update loop: written when a lead was assigned
SavedLoad(load_df, assigned_df) ==
    IF WritesLoad(assigned_df) THEN UpdateLoad(load_df, assigned_df, today)
    ELSE posp_load_file

\* matched_df.drop_duplicates(subset of the four columns)
DedupMatched(results) == drop_duplicates(results, MatchSubset(results))

\* run_pipeline from the load of posp_load.xlsx on: the new leads are
\* matched, then posp_load.xlsx, the matches file and leads_master.xlsx are
\* written in that order; to_excel_ok is whether writing the matches file
\* succeeds
MatchAndSave(new_leads, posps, load_df, load_map, matched, to_excel_ok) ==
    /\ result' = IF to_excel_ok THEN "completed" ELSE "OSError"
    /\ existing_keys' = leads_master
    /\ new_leads_df' = new_leads
    /\ posp_df' = posps
    /\ load_read' = posp_load_file
    /\ posp_load_df' = load_df
    /\ posp_load_map' = load_map
    /\ matched_df' = matched
    /\ posp_load_file' = SavedLoad(load_df, AssignedRows(matched))
    /\ matches_file' = IF to_excel_ok THEN Combined(matches_file, matched)
                       ELSE matches_file
    /\ leads_master' = IF to_excel_ok THEN MasterAll(leads_master, new_leads)
                       ELSE MasterAfterRaise(leads_master, new_leads)

\* run_pipeline after the early return: col.astype(int) raises inside
\* match_leads_with_posp, or the run goes on
MatchNewLeads(new_leads, posps, load_df, load_map, to_excel_ok) ==
    IF AstypeIntRaises(posps, today)
    THEN /\ result' = "IntCastingNaNError"
         /\ existing_keys' = leads_master
         /\ new_leads_df' = new_leads
         /\ posp_df' = posps
         /\ load_read' = posp_load_file
         /\ posp_load_df' = load_df
         /\ posp_load_map' = load_map
         /\ matched_df' = <<>>
         /\ UNCHANGED files
    ELSE MatchAndSave(new_leads, posps, load_df, load_map,
             DedupMatched(
                 match_leads_with_posp(new_leads, posps, load_map, today)),
             to_excel_ok)

\* posp_load.xlsx is loaded and the load map built
LoadAndMatch(new_leads, posps, load_df, to_excel_ok) ==
    MatchNewLeads(new_leads, posps, load_df, build_load_map(load_df),
                  to_excel_ok)

\* run_pipeline after the column check
ProcessLeads(deduped, new_leads, posps, to_excel_ok) ==
    /\ leads_df' = deduped
    /\ same_leads' = (deduped = leads_df)
    /\ IF new_leads = <<>>
       THEN /\ result' = "no_new_leads"
            /\ existing_keys' = leads_master
            /\ new_leads_df' = <<>>
            /\ posp_df' = NoSheet
            /\ load_read' = <<>>
            /\ posp_load_df' = <<>>
            /\ posp_load_map' = <<>>
            /\ matched_df' = <<>>
            /\ UNCHANGED files
       ELSE LoadAndMatch(new_leads, DedupPosps(posps),
                         load_posp_load(posp_load_file, today), to_excel_ok)

\* one call of run_pipeline on a leads sheet and a POSP sheet
run_pipeline(leads, posps, to_excel_ok) ==
    /\ today_date' = today
    /\ UNCHANGED <<today, results_file>>
    /\ leads_columns' = leads.columns
    /\ posp_columns' = posps.columns
    /\ IF MissingColumns(leads, posps) # {}
       THEN /\ result' = "ValueError"
            /\ leads_df' = leads.rows
            /\ same_leads' = FALSE
            /\ existing_keys' = {}
            /\ new_leads_df' = <<>>
            /\ posp_df' = NoSheet
            /\ load_read' = <<>>
            /\ posp_load_df' = <<>>
            /\ posp_load_map' = <<>>
            /\ matched_df' = <<>>
            /\ UNCHANGED files
       ELSE ProcessLeads(DedupLeads(leads.rows),
                         NewLeads(DedupLeads(leads.rows), leads_master),
                         posps, to_excel_ok)

\* midnight passes between two calls
NextDay ==
    /\ today < MaxDay
    /\ today' = today + 1
    /\ UNCHANGED <<leads_master, matches_file, posp_load_file, results_file,
                   leads_columns, posp_columns,
                   leads_df, same_leads, load_read, existing_keys,
                   new_leads_df, posp_df, today_date, posp_load_df,
                   posp_load_map, matched_df, result>>

Next ==
    \/ \E leads \in LeadSheets, posps \in PospSheets :
           run_pipeline(leads, posps, TRUE)
    \/ NextDay

Spec == Init /\ [][Next]_vars

\* ------------------------------------------- run_pipeline of test10.py
\* the leads column pincode_x000d_ renamed to pincode
RenamePincode(columns) ==
    IF "pincode_x000d_" \in columns /\ "pincode" \notin columns
    THEN (columns \ {"pincode_x000d_"}) \cup {"pincode"}
    ELSE columns

\* run_pipeline of test10.py after the early return: the new leads are
\* matched and the rows appended to Processing Results.xlsx;
\* leads_master.xlsx is not written
Phase2MatchAndSave(new_leads, posps, matched) ==
    /\ result' = "completed"
    /\ new_leads_df' = new_leads
    /\ posp_df' = posps
    /\ matched_df' = matched
    /\ results_file' = Combined(results_file, matched)

Phase2ProcessLeads(columns, deduped, new_leads, posps) ==
    /\ leads_columns' = columns
    /\ leads_df' = deduped
    /\ same_leads' = (deduped = leads_df)
    /\ existing_keys' = leads_master
    /\ IF new_leads = <<>>
       THEN /\ result' = "no_new_leads"
            /\ new_leads_df' = <<>>
            /\ posp_df' = NoSheet
            /\ matched_df' = <<>>
            /\ UNCHANGED results_file
       ELSE Phase2MatchAndSave(new_leads, posps,
                DedupMatched(Phase2_match_leads_with_posp(
                                 new_leads, columns, posps, today)))

\* one call of run_pipeline of test10.py on a leads sheet and a POSP sheet
Phase2_run_pipeline(leads, posps) ==
    /\ UNCHANGED <<today, today_date, files, load_read, posp_load_df,
                   posp_load_map>>
    /\ posp_columns' = posps.columns
    /\ Phase2ProcessLeads(RenamePincode(leads.columns),
                          DedupLeads(leads.rows),
                          NewLeads(DedupLeads(leads.rows), leads_master),
                          DedupPosps(posps))

Phase2Init == InitFrom({<<>>})

Phase2Next ==
    \E leads \in Phase2LeadSheets, posps \in Phase2PospSheets :
        Phase2_run_pipeline(leads, posps)

Phase2Spec == Phase2Init /\ [][Phase2Next]_vars

\* the runs of one day in which writing the matches file can fail (the file
\* is open in another program, the disk is full), every POSP starting one
\* lead below the cap
FaultInit ==
    InitFrom({<<LoadRow(P1.user_id, daily_posp_cap - 1, Day0),
                LoadRow(P2.user_id, daily_posp_cap - 1, Day0),
                LoadRow(P3.user_id, daily_posp_cap - 1, Day0)>>})

FaultNext ==
    \E leads \in LeadSheets, posps \in PospSheets, to_excel_ok \in BOOLEAN :
        run_pipeline(leads, posps, to_excel_ok)

FaultSpec == FaultInit /\ [][FaultNext]_vars

\* the runs over the wider sheets
MatchNext ==
    \/ \E leads \in WideLeadSheets, posps \in WidePospSheets :
           run_pipeline(leads, posps, TRUE)
    \/ NextDay

MatchSpec == Init /\ [][MatchNext]_vars

\* the runs over leads whose leadid or registrationno holds the separator
\* of lead_key
KeyInit == InitFrom({<<>>})

KeyNext ==
    \E leads \in {[columns |-> AllLeadColumns, rows |-> q] :
                      q \in SeqsUpTo({Lead(<<"1", "_", "2">>, <<"A">>, Pune, MH),
                                      Lead(<<"1">>, <<"2", "_", "A">>, Pune, MH),
                                      Lead(<<"1">>, <<"A">>, Pune, MH)},
                                     MaxLeadRows) \ {<<>>}},
       posps \in PospSheets :
        run_pipeline(leads, posps, TRUE)

KeySpec == KeyInit /\ [][KeyNext]_vars

\* ------------------------------------------- the two matchers on their own
\* match_leads_with_posp of app.py and of Phase2/test10.py applied to a
\* leads frame, a POSP frame and a load map.  The inputs:
\*   pins:    one lead and one POSP of another city and state, every pair
\*            of pincode cells
\*   scores:  one lead and one POSP of the lead's state, over the cities,
\*            dates, performance scores and pincodes, with and without the
\*            performance_score column
\*   apps:    one POSP in the lead's city over the app_installed cells of a
\*            column of strings and of a column of numbers, and without the
\*            column
\*   states:  the state cells of lead and POSP, with and without a common
\*            pincode
\*   tiers:   one or two leads and sheets of several POSPs in different
\*            tiers, or tied, over the load maps
MatcherInit ==
    LET pin(last) == <<"4", "1", "1", "0", "0", last>>
        Pins == {NaN, pin("1"), pin("2"),
                 <<"4", "1", "1", "0", "9", "9">>,
                 <<"4", "1", "2", "0", "0", "1">>,
                 <<"5", "6", "0", "0", "0", "1">>,
                 <<"4", "1", "1", " ", "0", "0", "1">>,
                 <<"4", "1", "1", "0", "0">>,
                 <<"4", "1", "1", "0", "0", "1", "1">>,
                 <<"4", "1", "1", "0", "0", "1", ".", "0">>}
        Apps == {<<"y", "e", "s">>, <<"Y", "E", "S">>, <<"Y">>,
                 <<"T", "r", "u", "e">>, <<"1">>, <<"n", "o">>,
                 <<"y", "e", "s", " ">>, <<"0">>, <<"2">>, NaN}
        L(state, pincode) == Lead2(<<"1">>, <<"A">>, Pune, state, pincode)
        Q(id, city, state, date, perf, pincode) ==
            Posp2(<<"Q", id>>, city, state, date, perf, <<"y">>, pincode)
        Sheet(columns, dtype, rows) ==
            [columns |-> columns, app_dtype |-> dtype, rows |-> rows]
        In(lead_rows, posps, load) ==
            [leads |-> lead_rows, posps |-> posps, load |-> load]
        pins ==
            {In(<<L(MH, lp)>>,
                Sheet(Phase2PospColumns, "O",
                      <<Q("1", Goa, KA, Day0 - 2, 0, pp)>>), <<>>) :
                 lp \in Pins, pp \in Pins}
        scores ==
            {In(<<Lead2(<<"1">>, <<"A">>, lc, MH, lp)>>,
                Sheet(c, "O", <<Q("1", city, MH, date, perf, pp)>>), <<>>) :
                 lc \in {Pune, Goa},
                 lp \in {NaN, pin("1")}, pp \in {NaN, pin("2")},
                 city \in {Pune, Puna, Gaya, Goa},
                 date \in {Day0 - 2, Day0 - 7, Day0 - 8, Day0 - 29},
                 perf \in {0, 5, NotNumeric, 0 - 6},
                 c \in {Phase2PospColumns,
                        Phase2PospColumns \ {"performance_score"}}}
        apps ==
            {In(<<L(MH, NaN)>>,
                Sheet(Phase2PospColumns, "O",
                      <<Posp2(<<"Q", "1">>, Pune, MH, Day0 - 2, 0, a, NaN)>>),
                <<>>) : a \in Apps}
            \cup
            {In(<<L(MH, NaN)>>,
                Sheet(Phase2PospColumns, "float64",
                      <<Posp2(<<"Q", "1">>, Pune, MH, Day0 - 2, 0, a, NaN)>>),
                <<>>) : a \in {<<"1">>, <<"0">>, <<"2">>, NaN}}
            \cup
            {In(<<L(MH, NaN)>>,
                Sheet(Phase2PospColumns \ {"app_installed"}, "O",
                      <<Posp2(<<"Q", "1">>, Pune, MH, Day0 - 2, 0, a, NaN)>>),
                <<>>) : a \in {NaN}}
        states ==
            {In(<<L(ls, lp)>>,
                Sheet(Phase2PospColumns, "O",
                      <<Q("1", Pune, ps, Day0 - 2, 0, pin("1"))>>), <<>>) :
                 ls \in {MH, NaN, <<" ">>, Mh}, ps \in {MH, NaN, <<" ">>, KA},
                 lp \in {NaN, pin("1")}}
        tiers ==
            {In(leads, Sheet(Phase2PospColumns, "O", q), load) :
                 leads \in {<<L(MH, pin("1"))>>,
                            <<L(MH, pin("1")),
                              Lead2(<<"2">>, <<"A">>, Pune, MH, pin("1"))>>},
                 q \in {<<Q("1", Pune, MH, Day0 - 2, 20, NaN),
                          Q("2", Goa, KA, Day0 - 8, 0 - 6,
                            <<"4", "1", "1", "0", "9", "9">>)>>,
                        <<Q("1", Puna, MH, Day0 - 2, 20, NaN),
                          Q("2", Pune, MH, Day0 - 8, 0 - 6, NaN)>>,
                        <<Q("1", Pune, MH, Day0 - 2, 0, NaN),
                          Q("2", Pune, MH, Day0 - 2, 0, NaN),
                          Q("3", Pune, MH, Day0 - 2, 0, NaN)>>,
                        <<Q("1", Pune, MH, Day0 - 8, 2, NaN),
                          Q("2", Pune, MH, Day0 - 2, 0, NaN),
                          Q("3", Pune, MH, Day0 - 2, 0, NaN)>>,
                        <<Q("1", Goa, KA, Day0 - 2, 0, pin("2")),
                          Q("2", Goa, KA, Day0 - 2, 0, pin("2"))>>},
                 load \in {<<>>,
                           <<LoadRow(<<"Q", "1">>, 1, Day0)>>,
                           <<LoadRow(<<"Q", "2">>, 3, Day0)>>,
                           <<LoadRow(<<"Q", "1">>, 3, Day0),
                             LoadRow(<<"Q", "2">>, 3, Day0)>>,
                           <<LoadRow(<<"Q", "1">>, daily_posp_cap, Day0)>>}}
    IN  \E in \in pins \cup scores \cup apps \cup states \cup tiers :
            /\ today = Day0
            /\ today_date = Day0
            /\ leads_master = {}
            /\ matches_file = <<>>
            /\ posp_load_file = in.load
            /\ results_file = <<>>
            /\ leads_columns = Phase2LeadColumns
            /\ posp_columns = in.posps.columns
            /\ leads_df = in.leads
            /\ same_leads = FALSE
            /\ load_read = in.load
            /\ existing_keys = {}
            /\ new_leads_df = in.leads
            /\ posp_df = in.posps
            /\ posp_load_df = in.load
            /\ posp_load_map = build_load_map(in.load)
            /\ matched_df = <<>>
            /\ result = "start"

\* match_leads_with_posp of app.py is called
AppMatch ==
    /\ result = "start"
    /\ IF AstypeIntRaises(posp_df, today)
       THEN result' = "IntCastingNaNError" /\ matched_df' = <<>>
       ELSE /\ result' = "app"
            /\ matched_df' = match_leads_with_posp(new_leads_df, posp_df,
                                                   posp_load_map, today)
    /\ UNCHANGED <<today, files, results_file, leads_columns, posp_columns,
                   leads_df, same_leads, load_read, existing_keys,
                   new_leads_df, posp_df, today_date, posp_load_df,
                   posp_load_map>>

\* match_leads_with_posp of Phase2/test10.py is called
Phase2Match ==
    /\ result = "start"
    /\ IF AstypeIntRaises(posp_df, today)
       THEN result' = "IntCastingNaNError" /\ matched_df' = <<>>
       ELSE /\ result' = "phase2"
            /\ matched_df' = Phase2_match_leads_with_posp(
                                 new_leads_df, leads_columns, posp_df, today)
    /\ UNCHANGED <<today, files, results_file, leads_columns, posp_columns,
                   leads_df, same_leads, load_read, existing_keys,
                   new_leads_df, posp_df, today_date, posp_load_df,
                   posp_load_map>>

MatcherNext == AppMatch \/ Phase2Match

MatcherSpec == MatcherInit /\ [][MatcherNext]_vars

\* ------------------------------------------------------------- properties
Rows(df) == {df[i] : i \in 1..Len(df)}

\* the lead a match row is about
RowKey(m) == str(m.lead_phone) \o <<"_">> \o str(m.lead_regno)

\* number of assigned rows of df that name the POSP with key k
AssignedCount(df, k) ==
    Cardinality({i \in 1..Len(df) :
                    /\ df[i].assigned_status = "assigned"
                    /\ str(df[i].posp_id) = k})

\* the count stored for key k in posp_load.xlsx, 0 without a row
StoredCount(file, k) == LoadOf(build_load_map(file), k)

HasRow(file, k) == \E i \in 1..Len(file) : str(file[i].posp_id) = k

PospKeys == {str(P1.user_id), str(P2.user_id), str(P3.user_id)}

\* C1: after a run no POSP's assigned_count_today in posp_load.xlsx exceeds
\* daily_posp_cap.
CapNeverExceeded ==
    \A i \in 1..Len(posp_load_file) :
        posp_load_file[i].assigned_count_today <= daily_posp_cap

\* C2: a POSP that had exactly one slot left when the run started is assigned
\* at most one lead of that run (the later leads see the updated load).
OneSlotOneLead ==
    result = "completed" =>
        \A k \in DOMAIN posp_load_map :
            posp_load_map[k] = daily_posp_cap - 1 =>
                AssignedCount(matched_df, k) <= 1

\* C3: the matches file holds at most one row per lead (leadid,
\* registrationno).
OneRecordPerLead ==
    \A i, j \in 1..Len(matches_file) :
        (/\ matches_file[i].lead_phone = matches_file[j].lead_phone
         /\ matches_file[i].lead_regno = matches_file[j].lead_regno) => i = j

\* a later run read a sheet holding a lead that already has its row, next to
\* a lead that is new
OneRecordPerLeadWitness ==
    /\ result = "completed"
    /\ Len(matches_file) >= 2
    /\ \E l \in Rows(leads_df) : lead_key(l) \in existing_keys

\* C4: a run (a step that is not a midnight) on the leads of the run before
\* it, which ended normally, changes none of the three files.
Idempotence ==
    [][(/\ today' = today
        /\ result \in {"completed", "no_new_leads"}
        /\ leads_df' = leads_df) => UNCHANGED files]_vars

\* the same leads were run twice, the first run having processed them
IdempotenceWitness ==
    /\ same_leads
    /\ result = "no_new_leads"
    /\ matches_file # <<>>
    /\ posp_load_file # <<>>

\* C5: a run (a step that is not a midnight) matches no lead whose key is in
\* leads_master when it starts, and appends no row for it.
ProcessedLeadsSkipped ==
    [][today' = today =>
          /\ \A l \in Rows(new_leads_df') : lead_key(l) \notin leads_master
          /\ \A m \in Rows(matched_df') : RowKey(m) \notin leads_master
          /\ \A i \in (Len(matches_file) + 1)..Len(matches_file') :
                 RowKey(matches_file'[i]) \notin leads_master]_vars

\* a run read a processed lead whose city differs from the recorded one,
\* together with a new lead
ProcessedLeadsSkippedWitness ==
    /\ result = "completed"
    /\ \E l \in Rows(leads_df) :
           /\ lead_key(l) \in existing_keys
           /\ \E m \in Rows(matches_file) :
                  RowKey(m) = lead_key(l) /\ m.lead_city # l.regcity

\* C6: after a completed run the key of every new lead of the run is in
\* leads_master, assigned or not.
NewLeadsRecorded ==
    result = "completed" =>
        \A l \in Rows(new_leads_df) : lead_key(l) \in leads_master

\* a completed run with an assigned and a not_assigned lead
NewLeadsRecordedWitness ==
    /\ result = "completed"
    /\ \E m \in Rows(matched_df) : m.assigned_status = "assigned"
    /\ \E m \in Rows(matched_df) : m.assigned_status = "not_assigned"
    /\ \A m \in Rows(matched_df) : RowKey(m) \in leads_master

\* C7: no step removes a key from leads_master.
MasterGrows == [][leads_master \subseteq leads_master']_vars

\* a run added keys to a leads_master that already held some
MasterGrowsWitness ==
    /\ result = "completed"
    /\ existing_keys # {}
    /\ existing_keys \subseteq leads_master
    /\ existing_keys # leads_master

\* C8: a row of posp_load.xlsx dated another day than the run reads as 0 in
\* the run: 0 in the load map the cap test uses, 0 as the load of the
\* candidates, and the count written is the number of leads of this run.
DailyReset ==
    result = "completed" =>
        \A i \in 1..Len(load_read) :
            load_read[i].last_reset_date # today_date =>
                LET k == str(load_read[i].posp_id)
                IN  /\ LoadOf(posp_load_map, k) = 0
                    /\ \A m \in Rows(matched_df) :
                           (m.assigned_status = "assigned" /\ str(m.posp_id) = k)
                               => m.assigned_count_today = 0
                    /\ posp_load_file # load_read =>
                           StoredCount(posp_load_file, k)
                               = AssignedCount(matched_df, k)

\* a POSP stored at the cap on an earlier day took a lead
DailyResetWitness ==
    /\ result = "completed"
    /\ \E i \in 1..Len(load_read) :
           /\ load_read[i].last_reset_date # today_date
           /\ load_read[i].assigned_count_today >= daily_posp_cap
           /\ AssignedCount(matched_df, str(load_read[i].posp_id)) >= 1

\* C9: a POSP whose count for today is at or above the cap when the run
\* starts is assigned no lead in the run.
CappedPospSkipped ==
    result = "completed" =>
        \A k \in DOMAIN posp_load_map :
            posp_load_map[k] >= daily_posp_cap =>
                AssignedCount(matched_df, k) = 0

\* a run with a POSP at the cap and a lead of that POSP's city and state
CappedPospSkippedWitness ==
    /\ result = "completed"
    /\ LoadOf(posp_load_map, P1.user_id) >= daily_posp_cap
    /\ \E m \in Rows(matched_df) :
           /\ norm(m.lead_city) = norm(P1.city_name)
           /\ norm(m.lead_state) = norm(P1.state_name)

RowsOfLead(df, l) ==
    {i \in 1..Len(df) : /\ df[i].lead_phone = l.leadid
                        /\ df[i].lead_regno = l.registrationno}

\* C11: after a completed run matched_df holds exactly one row for every new
\* lead, and every row is either an assigned row that names a POSP or a
\* not_assigned row without a POSP.
OneOutcomePerLead ==
    result = "completed" =>
        /\ \A l \in Rows(new_leads_df) :
               Cardinality(RowsOfLead(matched_df, l)) = 1
        /\ \A m \in Rows(matched_df) :
               \/ m.assigned_status = "assigned" /\ ~isna(m.posp_id)
               \/ m.assigned_status = "not_assigned" /\ isna(m.posp_id)

\* the two states are both non-blank and differ, compared without case
StatesDiffer(a, b) ==
    /\ norm(a) # <<>>
    /\ norm(b) # <<>>
    /\ norm(a) # norm(b)

\* the row of matched_df about the lead l is a not_assigned row
NotAssigned(df, l) ==
    \A i \in RowsOfLead(df, l) :
        df[i].assigned_status = "not_assigned" /\ isna(df[i].posp_id)

\* C12: no assigned row of a run of test10.py pairs a lead and a POSP whose
\* states are both non-blank and differ, unless their pincodes match at a
\* tier; a lead all of whose POSPs are in another state, none with a pincode
\* tier, gets a not_assigned row.
StateHardGate ==
    result = "completed" =>
        /\ \A m \in Rows(matched_df) :
               m.assigned_status = "assigned" =>
                   \/ pincode_match_level(m.lead_pincode, m.posp_pincode)
                          # "none"
                   \/ ~StatesDiffer(m.lead_state, m.posp_state)
        /\ \A l \in Rows(new_leads_df) :
               (\A q \in Rows(posp_df.rows) :
                    /\ StatesDiffer(l.regstate, q.state_name)
                    /\ pincode_match_level(PincodeOf(leads_columns, l),
                                           PincodeOf(posp_columns, q))
                           = "none")
                   => NotAssigned(matched_df, l)

\* a lead whose only POSP has the lead's city and is in another state was
\* recorded not_assigned
StateHardGateWitness ==
    /\ result = "completed"
    /\ Len(posp_df.rows) = 1
    /\ \E m \in Rows(matched_df) :
           /\ m.assigned_status = "not_assigned"
           /\ \A q \in Rows(posp_df.rows) :
                  /\ IsActive(q, today)
                  /\ CityMatches(norm(m.lead_city), norm(q.city_name))
                  /\ StatesDiffer(m.lead_state, q.state_name)

\* the geo tier class of a match_type
TierClass(match_type) ==
    IF match_type \in {"pincode_6", "pincode_5", "pincode_3"} THEN "pin"
    ELSE IF match_type = "exact_city" THEN "exact"
    ELSE IF match_type = "fuzzy_city" THEN "fuzzy"
    ELSE "none"

\* the tier class of the list a POSP row was appended to
TierOf(scores) ==
    IF scores.pin # <<>> THEN "pin"
    ELSE IF scores.exact # <<>> THEN "exact"
    ELSE IF scores.fuzzy # <<>> THEN "fuzzy"
    ELSE "none"

\* the tier classes reached by the candidates of the lead l in the last run
\* of test10.py
Phase2CandidateTiers(l) ==
    {TierOf(Phase2ScorePosp(l, PincodeOf(leads_columns, l), q,
                            PincodeOf(posp_columns, q), today)) :
         q \in Rows(FilterPosps(posp_df, today))}

\* the assigned row of lead l, when there is one, is of tier class c
SelectedIn(df, l, c) ==
    \A i \in RowsOfLead(df, l) :
        df[i].assigned_status = "assigned" => TierClass(df[i].match_type) = c

\* C13: when a candidate of a lead has a pincode tier the POSP selected for
\* the lead has a pincode tier; when none has and a candidate is an exact
\* city match the POSP selected is an exact city match.
TierExclusivity ==
    result = "completed" =>
        \A l \in Rows(new_leads_df) :
            /\ "pin" \in Phase2CandidateTiers(l) => SelectedIn(matched_df, l, "pin")
            /\ ("pin" \notin Phase2CandidateTiers(l)
                    /\ "exact" \in Phase2CandidateTiers(l))
                   => SelectedIn(matched_df, l, "exact")

\* a lead with candidates of the three tier classes, the pincode candidate
\* scoring lowest, was assigned
TierExclusivityWitness ==
    /\ result = "completed"
    /\ \E l \in Rows(new_leads_df) :
           /\ {"pin", "exact", "fuzzy"} \subseteq Phase2CandidateTiers(l)
           /\ \E m \in Rows(matched_df) :
                  /\ m.assigned_status = "assigned"
                  /\ TierClass(m.match_type) = "pin"
                  /\ m.total_score < 20

\* the candidates of the lead l in the last run of app.py that are ranked
Candidates(l) ==
    PreferExact(ScanPosps(l, FilterPosps(posp_df, today_date), posp_load_map,
                          today_date, {}))

\* the daily load of a POSP when row i of the run is decided: the load read
\* from posp_load.xlsx plus the leads the run has assigned to it before
CurrentLoad(df, i, posp_id) ==
    LoadOf(posp_load_map, posp_id)
        + Cardinality({j \in 1..(i - 1) :
                          /\ df[j].assigned_status = "assigned"
                          /\ str(df[j].posp_id) = str(posp_id)})

\* the row df[i] is first in the selection order among the candidates
FirstInOrder(df, i, candidates) ==
    \A c \in Rows(candidates) :
        /\ c.total_score <= df[i].total_score
        /\ c.total_score = df[i].total_score
               => c.last_biz_date <= df[i].last_biz_date
        /\ (c.total_score = df[i].total_score
                /\ c.last_biz_date = df[i].last_biz_date)
               => CurrentLoad(df, i, df[i].posp_id)
                      <= CurrentLoad(df, i, c.posp_id)

\* C14: the POSP assigned to a lead has the greatest total_score among the
\* ranked candidates of the lead, among those the latest last_biz_date, and
\* among those the lowest daily load at that moment.
SelectionOrder ==
    result = "completed" =>
        \A l \in Rows(new_leads_df) :
            \A i \in RowsOfLead(matched_df, l) :
                matched_df[i].assigned_status = "assigned"
                    => FirstInOrder(matched_df, i, Candidates(l))

\* the candidate ranked first among the candidates is below min_score
TopBelowMinScore(candidates) ==
    \E c \in Rows(candidates) :
        /\ \A d \in Rows(candidates) : ~KeyGreater(d, c)
        /\ c.total_score < min_score

\* C15: every assigned row has total_score >= min_score, and a lead whose
\* first-ranked candidate is below min_score gets a not_assigned row without
\* a POSP.
MinimumScore ==
    result = "completed" =>
        /\ \A m \in Rows(matched_df) :
               m.assigned_status = "assigned" => m.total_score >= min_score
        /\ \A l \in Rows(new_leads_df) :
               TopBelowMinScore(Candidates(l)) => NotAssigned(matched_df, l)

\* a lead with two candidates, both below min_score, was recorded
\* not_assigned
MinimumScoreWitness ==
    /\ result = "completed"
    /\ \E l \in Rows(new_leads_df) :
           /\ Len(Candidates(l)) >= 2
           /\ TopBelowMinScore(Candidates(l))
           /\ NotAssigned(matched_df, l)

\* C16: when writing the matches file fails in a run, leads_master.xlsx is
\* left as it was before the run, so every lead of the run is still new.
LedgerKeptOnFailure ==
    [][result' = "OSError" =>
          /\ leads_master' = leads_master
          /\ new_leads_df' # <<>>
          /\ NewLeads(new_leads_df', leads_master') = new_leads_df']_vars

\* the run after a failed one matched the same leads again, posp_load.xlsx
\* having been written by the failed run
LedgerKeptOnFailureWitness ==
    /\ result = "completed"
    /\ same_leads
    /\ new_leads_df = leads_df
    /\ load_read # <<>>
    /\ \E i \in 1..Len(load_read) :
           load_read[i].assigned_count_today > daily_posp_cap - 1

\* C17: a run on a leads sheet without one of leadid, registrationno,
\* regcity, regstate, or on a POSP sheet without one of user_id, city_name,
\* state_name, last_biz_date, ends with the error and leaves the matches
\* file, leads_master.xlsx and posp_load.xlsx as they were.
MissingColumnAborts ==
    [][(/\ today' = today
        /\ \/ ~(LeadsRequired \subseteq leads_columns')
           \/ ~(PospRequired \subseteq posp_columns'))
          => /\ result' = "ValueError"
             /\ UNCHANGED files]_vars

\* a run on a POSP sheet without last_biz_date failed after earlier runs had
\* written the three files
MissingColumnAbortsWitness ==
    /\ result = "ValueError"
    /\ LeadsRequired \subseteq leads_columns
    /\ "last_biz_date" \notin posp_columns
    /\ leads_master # {}
    /\ matches_file # <<>>
    /\ posp_load_file # <<>>

\* C18: a run on sheets that have the required columns is not aborted by a
\* POSP row with an unparseable last_biz_date, a non-numeric
\* performance_score or an empty app_installed cell: it completes, or
\* returns early for lack of new leads.
MalformedRowTolerated ==
    (LeadsRequired \subseteq leads_columns
         /\ PospRequired \subseteq posp_columns)
        => result \in {"completed", "no_new_leads"}

\* C19: no step removes or changes a row of the matches file, and the file
\* never holds two rows with the same lead_phone, lead_regno, posp_id and
\* assigned_status.
AppendOnly ==
    [][/\ Len(matches_file) <= Len(matches_file')
       /\ \A i \in 1..Len(matches_file) : matches_file'[i] = matches_file[i]
       /\ \A i, j \in 1..Len(matches_file') :
              MatchSubset(matches_file')[i] = MatchSubset(matches_file')[j]
                  => i = j]_vars

\* a run added its rows to a matches file that held rows of an earlier run
AppendOnlyWitness ==
    /\ result = "completed"
    /\ matched_df # <<>>
    /\ Len(matches_file) > Len(matched_df)
    /\ \A m \in Rows(matched_df) : m \in Rows(matches_file)

\* the rows of the POSP sheet of the run that carry the user_id posp_id
PartnersNamed(posp_id) == {p \in Rows(posp_df.rows) : p.user_id = posp_id}

\* last_biz_date does not parse, or lies more than active_days_window days
\* before the time of the run; the run takes place in the course of the day
\* today_date and a date is the midnight that begins its day
StaleAt(p, run_day) ==
    \/ p.last_biz_date = NaT
    \/ run_day - p.last_biz_date >= active_days_window

\* C20: no assigned row of a run names a partner whose last_biz_date is
\* unparseable or lies more than the active-partner window before the run.
EligibleByRecency ==
    \A m \in Rows(matched_df) :
        m.assigned_status = "assigned" =>
            \A p \in PartnersNamed(m.posp_id) : ~StaleAt(p, today_date)

\* a run assigned a lead while the sheet held, in the lead's city and state,
\* a partner with an unparseable date and one whose date is too old
EligibleByRecencyWitness ==
    /\ result = "completed"
    /\ \E l \in Rows(new_leads_df) :
           /\ ~NotAssigned(matched_df, l)
           /\ \E p, q \in Rows(posp_df.rows) :
                  /\ p.last_biz_date = NaT
                  /\ q.last_biz_date # NaT
                  /\ StaleAt(q, today_date)
                  /\ p.city_name = l.regcity /\ q.city_name = l.regcity
                  /\ p.state_name = l.regstate /\ q.state_name = l.regstate

\* C21: a partner passes the app_installed filter exactly when its cell is
\* one of the strings yes, y, true, 1 in any case, or a number other than 0,
\* and every partner passes when the sheet has no app_installed column: a
\* partner that does not pass is named by no row, and a partner that passes,
\* alone on its sheet, in the lead's city and state, is assigned the lead.
AppInstalledEligibility ==
    result \in {"app", "phase2"} =>
        \A p \in Rows(posp_df.rows) :
            LET passes ==
                    IF "app_installed" \notin posp_columns THEN TRUE
                    ELSE IF posp_df.app_dtype = "O"
                    THEN lower(p.app_installed) \in
                             {<<"y", "e", "s">>, <<"y">>,
                              <<"t", "r", "u", "e">>, <<"1">>}
                    ELSE p.app_installed \notin {NaN, <<"0">>}
                alone ==
                    /\ Len(posp_df.rows) = 1
                    /\ Len(new_leads_df) = 1
                    /\ posp_load_map = <<>>
                    /\ p.city_name = new_leads_df[1].regcity
                    /\ p.state_name = new_leads_df[1].regstate
                    /\ p.state_name = MH
                    /\ p.performance_score = 0
                    /\ today - p.last_biz_date < 7
            IN  /\ ~passes =>
                       \A m \in Rows(matched_df) : m.posp_id # p.user_id
                /\ passes /\ alone =>
                       \E m \in Rows(matched_df) :
                           /\ m.posp_id = p.user_id
                           /\ m.assigned_status = "assigned"

\* C22: the matcher of test10.py, given one lead and one partner, emits a
\* postal tier only when both pincodes have exactly 6 digits once the other
\* characters are dropped; the tier is then pincode_6 with base 18 when the
\* digits are equal, else pincode_5 with base 14 when the first 5 are, else
\* pincode_3 with base 10 when the first 3 are, else no postal tier.
PostalTiers ==
    (result = "phase2" /\ Len(posp_df.rows) = 1 /\ Len(new_leads_df) = 1) =>
        LET digits(c) ==
                IF c = NaN THEN <<>>
                ELSE SelectSeq(c, LAMBDA ch : ch \in {"0", "1", "2", "3", "4",
                                                      "5", "6", "7", "8", "9"})
            dl == digits(new_leads_df[1].pincode)
            dp == digits(posp_df.rows[1].pincode)
            tier == IF Len(dl) # 6 \/ Len(dp) # 6 THEN "none"
                    ELSE IF dl = dp THEN "pincode_6"
                    ELSE IF SubSeq(dl, 1, 5) = SubSeq(dp, 1, 5) THEN "pincode_5"
                    ELSE IF SubSeq(dl, 1, 3) = SubSeq(dp, 1, 3) THEN "pincode_3"
                    ELSE "none"
            base == IF tier = "pincode_6" THEN 18
                    ELSE IF tier = "pincode_5" THEN 14 ELSE 10
            days == today - posp_df.rows[1].last_biz_date
            recency == IF days <= 7 THEN 5 ELSE IF days <= 30 THEN 3 ELSE 0
            perf == IF "performance_score" \in posp_columns
                        /\ posp_df.rows[1].performance_score # NotNumeric
                    THEN posp_df.rows[1].performance_score ELSE 0
            m == matched_df[1]
        IN  /\ Len(matched_df) = 1
            /\ tier # "none" =>
                   /\ m.match_type = tier
                   /\ m.total_score = base + recency + perf
                   /\ m.posp_id = posp_df.rows[1].user_id
            /\ tier = "none" =>
                   m.match_type \notin {"pincode_6", "pincode_5", "pincode_3"}

\* a lead pincode written with a blank and a partner pincode that differs
\* from it in the last digit: tier pincode_5
PostalTiersWitness ==
    /\ result = "phase2"
    /\ Len(posp_df.rows) = 1
    /\ Len(new_leads_df) = 1
    /\ new_leads_df[1].pincode = <<"4", "1", "1", " ", "0", "0", "1">>
    /\ posp_df.rows[1].pincode = <<"4", "1", "1", "0", "0", "2">>
    /\ matched_df[1].match_type = "pincode_5"
    /\ matched_df[1].total_score = 19
    /\ matched_df[1].assigned_status = "assigned"

\* C23: every assigned row of either matcher has total_score = base score of
\* its match type + recency bonus + performance_score * performance_weight,
\* the bonus being 5 up to 7 days since the partner's last_biz_date, 3 up to
\* 30 days and 0 beyond, and a missing or non-numeric performance_score
\* counting as 0; a partner with the lead's pincode, active 2 days ago, with
\* performance_score 0 is assigned with 23.
ScoreComposition ==
    result \in {"app", "phase2"} =>
        /\ \A m \in Rows(matched_df) :
               m.assigned_status = "assigned" =>
                   \E p \in Rows(posp_df.rows) :
                       LET days == today - p.last_biz_date
                           recency == IF days <= 7 THEN 5
                                      ELSE IF days <= 30 THEN 3 ELSE 0
                           perf == IF "performance_score" \in posp_columns
                                       /\ p.performance_score # NotNumeric
                                   THEN p.performance_score ELSE 0
                           base == CASE m.match_type = "pincode_6" -> 18
                                     [] m.match_type = "pincode_5" -> 14
                                     [] m.match_type = "pincode_3" -> 10
                                     [] m.match_type = "exact_city" -> 10
                                     [] m.similarity >= 90 -> 8
                                     [] m.similarity >= 70 /\ m.similarity < 90 -> 5
                                     [] OTHER -> 3
                       IN  /\ p.user_id = m.posp_id
                           /\ m.total_score = base + recency + perf * 1
        /\ (/\ result = "phase2"
            /\ Len(posp_df.rows) = 1
            /\ Len(new_leads_df) = 1
            /\ new_leads_df[1].pincode = <<"4", "1", "1", "0", "0", "1">>
            /\ posp_df.rows[1].pincode = <<"4", "1", "1", "0", "0", "1">>
            /\ today - posp_df.rows[1].last_biz_date = 2
            /\ posp_df.rows[1].performance_score = 0)
               => /\ matched_df[1].total_score = 23
                  /\ matched_df[1].assigned_status = "assigned"

\* the matcher of app.py assigned a fuzzy-city partner active 8 days ago
\* whose performance_score is non-numeric: 5 + 3 + 0
ScoreCompositionWitness ==
    /\ result = "app"
    /\ Len(posp_df.rows) = 1
    /\ posp_df.rows[1].performance_score = NotNumeric
    /\ today - posp_df.rows[1].last_biz_date = 8
    /\ Len(matched_df) = 1
    /\ matched_df[1].assigned_status = "assigned"
    /\ matched_df[1].match_type = "fuzzy_city"
    /\ matched_df[1].total_score = 8

\* C24: when a run was interrupted after posp_load.xlsx was written and
\* before the matches file was, the next run on the same sheets leaves the
\* three files as the interrupted run would have left them had it gone on:
\* posp_load.xlsx as it is, the rows of the interrupted run added to the
\* matches file, its leads added to leads_master.xlsx.
CrashConsistent ==
    [][(/\ result = "OSError"
        /\ result' = "completed"
        /\ leads_df' = leads_df
        /\ posp_df' = posp_df)
          => /\ posp_load_file' = posp_load_file
             /\ matches_file' = Combined(matches_file, matched_df)
             /\ leads_master' = MasterAll(leads_master, new_leads_df)]_vars

\* C25: after a completed run of test10.py the key of every lead it
\* processed is in leads_master.xlsx, and the next run, when it is given the
\* same leads, finds no new lead.
Phase2LedgerUpdated ==
    [][result = "completed" =>
          /\ \A l \in Rows(new_leads_df) : lead_key(l) \in leads_master
          /\ (today' = today /\ leads_df' = leads_df)
                 => result' = "no_new_leads"]_vars

\* C26: no assigned row of either matcher pairs a lead and a partner of
\* which one has a blank or missing state, unless the row is a postal tier.
BlankStateExcluded ==
    result \in {"app", "phase2"} =>
        \A m \in Rows(matched_df) :
            LET blank(c) == c = NaN \/ strip(c) = <<>>
            IN  (/\ m.assigned_status = "assigned"
                 /\ blank(m.lead_state) \/ blank(m.posp_state))
                    => m.match_type \in {"pincode_6", "pincode_5", "pincode_3"}

\* C27: in the matcher of test10.py a lead that has postal-tier candidates,
\* all of them below min_score, is recorded not_assigned whatever its other
\* candidates score; likewise a lead without postal-tier candidates whose
\* exact-city candidates are all below min_score.
LowerTiersDiscarded ==
    result = "phase2" =>
        \A l \in Rows(new_leads_df) :
            LET scores == Phase2ScanPosps(l, PincodeOf(leads_columns, l),
                                          FilterPosps(posp_df, today),
                                          posp_columns, today, {})
                below(list) ==
                    /\ list # <<>>
                    /\ \A c \in Rows(list) : c.total_score < min_score
            IN  /\ below(scores.pin) => NotAssigned(matched_df, l)
                /\ (scores.pin = <<>> /\ below(scores.exact))
                       => NotAssigned(matched_df, l)

\* a lead whose only postal-tier candidate scores 7 is recorded not_assigned
\* although an exact-city candidate scores 35
LowerTiersDiscardedWitness ==
    /\ result = "phase2"
    /\ \E l \in Rows(new_leads_df) :
           /\ NotAssigned(matched_df, l)
           /\ \E p, q \in Rows(posp_df.rows) :
                  /\ pincode_match_level(l.pincode, p.pincode) = "3"
                  /\ 10 + 3 + p.performance_score = 7
                  /\ today - p.last_biz_date = 8
                  /\ pincode_match_level(l.pincode, q.pincode) = "none"
                  /\ q.city_name = l.regcity
                  /\ q.state_name = l.regstate
                  /\ 10 + 5 + q.performance_score = 35
                  /\ today - q.last_biz_date = 2

\* C28: in app.py, when the POSP assigned to a lead ties with another ranked
\* candidate of the lead on total_score, last_biz_date and the daily load at
\* that moment, the assigned POSP comes first of the two in the POSP sheet.
StableTieBreak ==
    result \in {"app", "completed"} =>
        \A l \in Rows(new_leads_df) :
            \A i \in RowsOfLead(matched_df, l) :
                LET m == matched_df[i]
                    position(id) ==
                        CHOOSE k \in 1..Len(posp_df.rows) :
                            /\ str(posp_df.rows[k].user_id) = str(id)
                            /\ \A j \in 1..(k - 1) :
                                   str(posp_df.rows[j].user_id) # str(id)
                IN  m.assigned_status = "assigned" =>
                        \A c \in Rows(Candidates(l)) :
                            (/\ c.total_score = m.total_score
                             /\ c.last_biz_date = m.last_biz_date
                             /\ CurrentLoad(matched_df, i, c.posp_id)
                                    = CurrentLoad(matched_df, i, m.posp_id))
                                => position(m.posp_id) <= position(c.posp_id)

\* C29: two leads of a sheet with different (leadid, registrationno) pairs
\* have different lead_keys, and every lead of the sheet that a run of app.py
\* leaves out as already processed has a row of its own in the matches file.
LeadKeysInjective ==
    result \in {"completed", "no_new_leads"} =>
        /\ \A l, k \in Rows(leads_df) :
               <<l.leadid, l.registrationno>> # <<k.leadid, k.registrationno>>
                   => lead_key(l) # lead_key(k)
        /\ \A l \in Rows(leads_df) :
               l \notin Rows(new_leads_df) =>
                   \E m \in Rows(matches_file) :
                       /\ m.lead_phone = l.leadid
                       /\ m.lead_regno = l.registrationno

\* C30: when no lead and POSP have a pincode match and no POSP has a recorded
\* load, the records of match_leads_with_posp of app.py name, lead by lead,
\* the same POSP, match_type, total_score and assigned_status as those of
\* match_leads_with_posp of Phase2/test10.py on the same frames.
VariantsAgree ==
    LET emitted(df) ==
            [i \in 1..Len(df) |->
                <<df[i].lead_phone, df[i].lead_regno, df[i].posp_id,
                  df[i].match_type, df[i].total_score, df[i].assigned_status>>]
    IN  (/\ result = "app"
         /\ \A l \in Rows(new_leads_df), p \in Rows(posp_df.rows) :
                pincode_match_level(l.pincode, p.pincode) = "none"
         /\ \A p \in Rows(posp_df.rows) :
                LoadOf(posp_load_map, p.user_id) = 0)
            => emitted(matched_df)
                   = emitted(Phase2_match_leads_with_posp(
                                 new_leads_df, leads_columns, posp_df, today))

\* a lead with a pincode was assigned by app.py to a fuzzy-city POSP without
\* one, as the matcher of test10.py assigns it
VariantsAgreeWitness ==
    /\ result = "app"
    /\ Len(new_leads_df) = 1
    /\ Len(posp_df.rows) = 1
    /\ ~isna(new_leads_df[1].pincode)
    /\ isna(posp_df.rows[1].pincode)
    /\ posp_load_map = <<>>
    /\ Len(matched_df) = 1
    /\ matched_df[1].assigned_status = "assigned"
    /\ matched_df[1].match_type = "fuzzy_city"
    /\ matched_df[1].total_score = 8
    /\ LET other == Phase2_match_leads_with_posp(new_leads_df, leads_columns,
                                                 posp_df, today)
       IN  /\ Len(other) = 1
           /\ other[1].posp_id = matched_df[1].posp_id
           /\ other[1].match_type = "fuzzy_city"
           /\ other[1].total_score = 8
           /\ other[1].assigned_status = "assigned"
====
